---------------------------- MODULE Spec2Model ----------------------------
(***************************************************************************)
(* Credential verification and session establishment of the login example. *)
(*                                                                         *)
(* src/app/app.py           the hardened variant (bcrypt, flash on failure) *)
(* src/app/app_original.py  the baseline variant (plaintext, abort(401))    *)
(* src/app/create_password.py  the password-hashing helper                  *)
(*                                                                         *)
(* One client talks to the application.  The client's signed session       *)
(* cookie is the session; every request opens it, runs the view and saves   *)
(* it again.  Requests are the ones the CSRF and rate-limit middleware let  *)
(* through to the view.                                                     *)
(***************************************************************************)
EXTENDS Integers, Sequences, FiniteSets, TLC

VARIABLES
    store,      \* table "users": username -> value of column "password"
    session,    \* content of the client's session cookie
    age,        \* minutes since the session cookie was signed
    sinceLogin, \* minutes since the last successful authenticate (history)
    unclosed,   \* sqlite3 connections opened and never closed
    req,        \* the request served last
    resp        \* its response, with what the view did while serving it:
                \* authenticate's result, the connection it opened and the
                \* entries it wrote to app.logger

vars == <<store, session, age, sinceLogin, unclosed, req, resp>>

-----------------------------------------------------------------------------
(* Bounds of the model *)

MaxSalt == 1        \* bcrypt.gensalt() draws from 1..MaxSalt
MaxUnclosed == 1    \* unclosed connections counted
TickMinutes == 15   \* minutes that pass in one Tick

(* Program constant *)
PERMANENT_SESSION_LIFETIME == 30    \* minutes

-----------------------------------------------------------------------------
(* Python values *)

None == [type |-> "NoneType"]
Str(s) == [type |-> "str", val |-> s]
Bytes(b) == [type |-> "bytes", val |-> b]

\* truth value of a form field: None and "" are falsy
Truthy(v) == v.type # "NoneType" /\ Len(v.val) > 0

Usernames == {"alice", "bob"}
\* passwords as code points: "", "a", "a" followed by e-acute
Texts == {<<>>, <<97>>, <<97, 233>>}
Salts == 1..MaxSalt

\* request.form.get(...): the field is absent, empty or filled in
FormUsernames == {None} \cup {Str(u) : u \in Usernames \cup {""}}
FormPasswords == {None} \cup {Str(t) : t \in Texts}

\* UTF-8 bytes of one code point
Utf8(c) ==
    IF c < 128 THEN <<c>>
    ELSE IF c < 2048 THEN <<192 + (c \div 64), 128 + (c % 64)>>
    ELSE <<224 + (c \div 4096), 128 + ((c \div 64) % 64), 128 + (c % 64)>>

RECURSIVE Utf8Seq(_)
Utf8Seq(t) == IF t = <<>> THEN <<>> ELSE Utf8(Head(t)) \o Utf8Seq(Tail(t))

\* str.encode('utf-8') of a password
encode(s) == Bytes(Utf8Seq(s.val))

-----------------------------------------------------------------------------
(* bcrypt.  A hash embeds its salt; the digest is modelled as an injective  *)
(* function of the salt and the password bytes (passwords stay below        *)
(* bcrypt's input limit).                                                   *)

hashpw(pwbytes, salt) == Bytes([salt |-> salt, digest |-> <<salt, pwbytes.val>>])

\* re-hash the candidate with the salt of the stored hash and compare
checkpw(pwbytes, hashed) ==
    pwbytes.type = "bytes" /\ hashed.type = "bytes"
        /\ hashpw(pwbytes, hashed.val.salt) = hashed

\* create_password.py
generate_hashed_password(plain_password, salt) == hashpw(encode(plain_password), salt)

\* what the column "password" may hold in app.py's database: the hash of a
\* non-empty password, as a BLOB or as TEXT
StoredHashes ==
    {generate_hashed_password(Str(t), s) : t \in Texts \ {<<>>}, s \in Salts}
StoredColumns == StoredHashes \cup {Str(h.val) : h \in StoredHashes}
Stores == UNION {[U -> StoredColumns] : U \in SUBSET Usernames}

\* app_original.py's database holds the passwords themselves
PlainColumns == {Str(t) : t \in Texts \ {<<>>}}
PlainStores == UNION {[U -> PlainColumns] : U \in SUBSET Usernames}

-----------------------------------------------------------------------------
(* Session (flask's signed cookie).  Of its keys the model keeps "username" *)
(* and the permanent flag; a flashed message is shown by the response that   *)
(* flashes it.                                                              *)

NoUser == "-"
EmptySession == [username |-> NoUser, permanent |-> FALSE]

\* open_session: a cookie older than the lifetime does not load
open_session(cookie, a) ==
    IF a > PERMANENT_SESSION_LIFETIME THEN EmptySession ELSE cookie

\* "username" in session
is_authenticated(s) == s.username # NoUser

\* what is_authenticated() reports to a request arriving now
IsAuthenticated == is_authenticated(open_session(session, age))

\* save_session: an empty session leaves no cookie; a modified or a permanent
\* session (SESSION_REFRESH_EACH_REQUEST) is signed afresh; any other cookie
\* stays as the client holds it
save_session(s, modified, cookie, a) ==
    IF s = EmptySession THEN [cookie |-> EmptySession, age |-> 0]
    ELSE IF modified \/ s.permanent THEN [cookie |-> s, age |-> 0]
    ELSE [cookie |-> cookie, age |-> a]

-----------------------------------------------------------------------------
(* app.logger: an entry is its level, its fixed text and the values          *)
(* formatted into it, each with the variable it comes from                  *)

Entry(level, event, fields) == [level |-> level, event |-> event, fields |-> fields]
Field(name, v) == [name |-> name, val |-> v]

-----------------------------------------------------------------------------
(* Requests and responses *)

Request(op, username, password, dbUp) ==
    [op |-> op, username |-> username, password |-> password, dbUp |-> dbUp]

Response(status, view, flash, ret, opened, logged) ==
    [status |-> status, view |-> view, flash |-> flash, ret |-> ret,
     opened |-> opened, log |-> logged]

\* result of a call of authenticate
Result(ret, s, modified, logged, opened, closed) ==
    [ret |-> ret, session |-> s, modified |-> modified, log |-> logged,
     opened |-> opened, closed |-> closed]

NotCalled(s) == Result("not called", s, FALSE, <<>>, FALSE, FALSE)

\* minutes since the last successful authenticate, for the cookie saved
since_login(cookie, ret) ==
    IF cookie.username = NoUser \/ ret = "True" THEN 0 ELSE sinceLogin

\* a request is served: the view ran on the opened session and left result a
serve(request, response, a) ==
    LET saved == save_session(a.session, a.modified, session, age)
    IN  /\ (a.opened /\ ~a.closed) => unclosed < MaxUnclosed
        /\ req' = request
        /\ resp' = response
        /\ session' = saved.cookie
        /\ age' = saved.age
        /\ sinceLogin' = since_login(saved.cookie, a.ret)
        /\ unclosed' = IF a.opened /\ ~a.closed THEN unclosed + 1 ELSE unclosed
        /\ UNCHANGED store

-----------------------------------------------------------------------------
(* app.py *)

\* conn.execute("SELECT * FROM users WHERE username = ?", (username,)).fetchone()
fetchone(username) ==
    IF username.type = "str" /\ username.val \in DOMAIN store
    THEN [username |-> username.val, password |-> store[username.val]]
    ELSE None

\* faulty variant: the stored hash is handed to bcrypt as it was read
stored_bytes_unconverted(stored_hashed_pw) == stored_hashed_pw

\* "Convert stored hash to bytes if it was stored as a string"
stored_bytes(stored_hashed_pw) ==
    IF stored_hashed_pw.type = "str" THEN Bytes(stored_hashed_pw.val)
    ELSE stored_hashed_pw

\* faulty variant: any password is accepted for a username that has a record
credentials_ok_any_password(user, password) == user # None

\* if user: ... if bcrypt.checkpw(password.encode('utf-8'), stored_hashed_pw):
credentials_ok(user, password) ==
    user # None /\ checkpw(encode(password), stored_bytes(user.password))

\* the with block commits or rolls back and does not close the connection:
\* it is dropped unclosed when authenticate returns or raises
auth_raised(s) == Result("raised", s, FALSE, <<>>, TRUE, FALSE)

\* faulty variant: the session is not marked permanent
auth_success_not_permanent(s, username) ==
    Result("True", [s EXCEPT !.username = username.val], TRUE,
           <<Entry("INFO", "logged in successfully",
                   <<Field("username", username)>>)>>,
           TRUE, FALSE)

auth_success(s, username) ==
    Result("True", [username |-> username.val, permanent |-> TRUE], TRUE,
           <<Entry("INFO", "logged in successfully",
                   <<Field("username", username)>>)>>,
           TRUE, FALSE)

\* faulty variant: a failed verification clears the session
auth_failure_clears(s, username) ==
    Result("False", EmptySession, TRUE,
           <<Entry("WARNING", "Login failed", <<Field("username", username)>>)>>,
           TRUE, FALSE)

auth_failure(s, username) ==
    Result("False", s, FALSE,
           <<Entry("WARNING", "Login failed", <<Field("username", username)>>)>>,
           TRUE, FALSE)

\* authenticate(username, password) on session s; dbUp: the lookup succeeds
authenticate(s, username, password, dbUp) ==
    IF ~dbUp THEN auth_raised(s)
    ELSE IF credentials_ok(fetchone(username), password)
         THEN auth_success(s, username)
         ELSE auth_failure(s, username)

GenericError == "Invalid username or password. Please try again."

\* faulty variant: the message tells an unknown username from a wrong password
failure_response_by_cause(a, username) ==
    Response(200, "login.html",
             IF fetchone(username) = None THEN <<"Unknown username.">>
             ELSE <<"Wrong password.">>,
             a.ret, a.opened, a.log)

\* flash(...); return render_template("login.html")
failure_response(a, username) ==
    Response(200, "login.html", <<GenericError>>, a.ret, a.opened, a.log)

\* GET /
index ==
    LET s == open_session(session, age)
    IN  serve(Request("index", None, None, TRUE),
              Response(200, IF is_authenticated(s) THEN "index.html:in"
                            ELSE "index.html:out", <<>>, "not called", FALSE, <<>>),
              NotCalled(s))

\* GET /login
login_get ==
    LET s == open_session(session, age)
    IN  serve(Request("login_get", None, None, TRUE),
              Response(200, "login.html", <<>>, "not called", FALSE, <<>>),
              NotCalled(s))

\* faulty variant: only the password is required before authenticate is called
login_call_password_only(s, username, password, dbUp) ==
    IF Truthy(password)
    THEN authenticate(s, username, password, dbUp)
    ELSE NotCalled(s)

\* if username and password and authenticate(username, password):
login_call(s, username, password, dbUp) ==
    IF Truthy(username) /\ Truthy(password)
    THEN authenticate(s, username, password, dbUp)
    ELSE NotCalled(s)

\* POST /login
login_post(username, password, dbUp) ==
    LET s == open_session(session, age)
        a == login_call(s, username, password, dbUp)
    IN  serve(Request("login_post", username, password, dbUp),
              IF a.ret = "raised"
              THEN Response(500, "error", <<>>, a.ret, a.opened, a.log)
              ELSE IF a.ret = "True"
              THEN Response(302, "redirect:index", <<>>, a.ret, a.opened, a.log)
              ELSE failure_response(a, username),
              a)

\* faulty variant: logout leaves the username in the session
pop_username_kept(s) == s

\* session.pop("username", None)
pop_username(s) == [s EXCEPT !.username = NoUser]

\* GET /logout
logout ==
    LET s == pop_username(open_session(session, age))
    IN  serve(Request("logout", None, None, TRUE),
              Response(302, "redirect:index", <<>>, "not called", FALSE, <<>>),
              Result("not called", s, TRUE, <<>>, FALSE, FALSE))

-----------------------------------------------------------------------------
(* Environment *)

\* time passes for the cookie the client holds
Tick ==
    /\ session # EmptySession
    /\ age <= PERMANENT_SESSION_LIFETIME
    /\ age' = age + TickMinutes
    /\ sinceLogin' = IF session.username = NoUser THEN 0
                     ELSE IF sinceLogin > PERMANENT_SESSION_LIFETIME THEN sinceLogin
                     ELSE sinceLogin + TickMinutes
    /\ UNCHANGED <<store, session, unclosed, req, resp>>

\* the runtime collects a dropped connection object, which closes it
Finalize ==
    /\ unclosed > 0
    /\ unclosed' = unclosed - 1
    /\ UNCHANGED <<store, session, age, sinceLogin, req, resp>>

-----------------------------------------------------------------------------
Start ==
    /\ session = EmptySession
    /\ age = 0
    /\ sinceLogin = 0
    /\ unclosed = 0
    /\ req = Request("none", None, None, TRUE)
    /\ resp = Response(0, "none", <<>>, "not called", FALSE, <<>>)

Init == store \in Stores /\ Start

LoginPost ==
    \E username \in FormUsernames, password \in FormPasswords,
       dbUp \in BOOLEAN :
        login_post(username, password, dbUp)

Next ==
    \/ index
    \/ login_get
    \/ LoginPost
    \/ logout
    \/ Tick
    \/ Finalize

Spec == Init /\ [][Next]_vars

-----------------------------------------------------------------------------
(* app_original.py *)

\* for user in users: if user["username"] == username and
\*                       user["password"] == password
plain_match(username, password) ==
    /\ username.type = "str"
    /\ username.val \in DOMAIN store
    /\ store[username.val] = password

\* connection.execute(...) raises before connection.close() is reached;
\* otherwise the connection is closed before the rows are compared
authenticate_original(s, username, password, dbUp) ==
    IF ~dbUp THEN Result("raised", s, FALSE, <<>>, TRUE, FALSE)
    ELSE IF plain_match(username, password)
         THEN Result("True", [s EXCEPT !.username = username.val], TRUE,
                     <<Entry("INFO", "logged in successfully with password",
                             <<Field("username", username),
                               Field("password", password)>>)>>,
                     TRUE, TRUE)
         ELSE Result("aborted", s, FALSE,
                     <<Entry("WARNING", "failed to log in",
                             <<Field("username", username),
                               Field("password", password)>>)>>,
                     TRUE, TRUE)

\* POST /login of app_original.py
login_post_original(username, password, dbUp) ==
    LET s == open_session(session, age)
        a == authenticate_original(s, username, password, dbUp)
    IN  serve(Request("login_post", username, password, dbUp),
              IF a.ret = "raised"
              THEN Response(500, "error", <<>>, a.ret, a.opened, a.log)
              ELSE IF a.ret = "True"
              THEN Response(302, "redirect:index", <<>>, a.ret, a.opened, a.log)
              ELSE Response(401, "error", <<>>, a.ret, a.opened, a.log),
              a)

InitOriginal == store \in PlainStores /\ Start

LoginPostOriginal ==
    \E username \in FormUsernames, password \in FormPasswords,
       dbUp \in BOOLEAN :
        login_post_original(username, password, dbUp)

\* index, the GET of /login and logout are the same code in both variants
NextOriginal ==
    \/ index
    \/ login_get
    \/ LoginPostOriginal
    \/ logout
    \/ Finalize

SpecOriginal == InitOriginal /\ [][NextOriginal]_vars

-----------------------------------------------------------------------------
(* Properties *)

\* the step is a call of app.py's authenticate: only it leaves a connection
AuthStep == unclosed' = unclosed + 1

\* the step serves a request: the cookie is signed afresh or there is none,
\* and no connection is collected
RequestStep == age' = 0 /\ unclosed' >= unclosed

\* the record store holds a record for exactly this username whose
\* password_hash is a hash of this password (kept as a BLOB or as TEXT)
Matching(username, password) ==
    /\ username.type = "str" /\ password.type = "str"
    /\ username.val \in DOMAIN store
    /\ \E salt \in Salts :
           store[username.val].val = generate_hashed_password(password, salt).val

\* the lookup of the request served last ran and did not fail
Verified ==
    /\ req.op = "login_post"
    /\ Truthy(req.username) /\ Truthy(req.password)
    /\ req.dbUp

\* the result of a failed verification, as the caller of login sees it
InvalidCredentials(username) ==
    Response(200, "login.html", <<GenericError>>, "False", TRUE,
             <<Entry("WARNING", "Login failed", <<Field("username", username)>>)>>)

\* C1: a login with a username and a non-empty password whose hash the store
\* holds for that username succeeds (the lookup not failing): authenticate
\* returns True, the client is redirected, and the session holds that
\* username, so that is_authenticated reports true until the session expires.
C1_MatchingPairSucceeds ==
    (Verified /\ Matching(req.username, req.password)) =>
        /\ resp.ret = "True"
        /\ resp.status = 302
        /\ session.username = req.username.val
        /\ (age <= PERMANENT_SESSION_LIFETIME => IsAuthenticated)

C1_Witness ==
    /\ Verified /\ Matching(req.username, req.password)
    /\ store[req.username.val].type = "str"
    /\ req.password.val = <<97, 233>>
    /\ resp.ret = "True"
    /\ IsAuthenticated

\* C2: a verification that does not match fails the same way whether or not a
\* record exists for the username: authenticate returns False, the response
\* is the login form with the one generic message and status 200, the log
\* entry names only the submitted username, and the session stays as it was.
C2_UnknownUserLikeWrongPassword ==
    [][(AuthStep /\ req'.dbUp /\ ~Matching(req'.username, req'.password)) =>
          /\ resp' = InvalidCredentials(req'.username)
          /\ session' = open_session(session, age)]_vars

C2_Witness ==
    /\ Verified
    /\ req.username.val \notin DOMAIN store
    /\ DOMAIN store # {}
    /\ resp = InvalidCredentials(req.username)

\* C3: a login whose username or password is absent or empty fails with the
\* generic message without authenticate being called: no connection is
\* opened, nothing is looked up and nothing is logged.
C3_MissingInputTouchesNoStore ==
    (req.op = "login_post" /\ ~(Truthy(req.username) /\ Truthy(req.password))) =>
        /\ resp.opened = FALSE
        /\ resp.ret = "not called"
        /\ resp.log = <<>>
        /\ resp.status = 200
        /\ resp.flash = <<GenericError>>

C3_Witness ==
    /\ req.op = "login_post"
    /\ req.username = Str("")
    /\ Truthy(req.password)
    /\ ~resp.opened
    /\ resp.flash = <<GenericError>>

\* C4: a failure of the storage layer during the lookup reaches the caller of
\* login as a failed verification (the generic message, status 200), never as
\* an error that escapes authenticate.
C4_StorageFailureIsFailedVerification ==
    (req.op = "login_post" /\ resp.opened /\ ~req.dbUp) =>
        /\ resp.ret = "False"
        /\ resp.status = 200
        /\ resp.flash = <<GenericError>>

\* C5: no connection opened by authenticate remains open once the request
\* that called it is served.
C5_NoConnectionRemainsOpen == unclosed = 0

\* C6: every log entry carries the username and nothing else: neither the
\* candidate password nor the stored hash is formatted into it.
C6_LogCarriesOnlyUsername ==
    \A i \in DOMAIN resp.log :
        \A j \in DOMAIN resp.log[i].fields :
            /\ resp.log[i].fields[j].name = "username"
            /\ resp.log[i].fields[j].val = req.username

\* C7: the session comes to hold a subject only by a call of authenticate
\* that returned True for that username with a password whose hash the store
\* holds for it; no other step sets the subject.
C7_SubjectOnlyByVerification ==
    [][(session'.username # NoUser /\ session'.username # session.username) =>
          /\ AuthStep
          /\ req'.op = "login_post"
          /\ resp'.ret = "True"
          /\ req'.username = Str(session'.username)
          /\ Matching(req'.username, req'.password)]_vars

C7_Witness ==
    /\ session.username = "bob"
    /\ req.op = "login_post"
    /\ req.username = Str("bob")
    /\ resp.ret = "True"
    /\ "alice" \in DOMAIN store

\* C8: after a logout is_authenticated reports false, and it stays false until
\* a call of authenticate returns True; a logout of a session that is not
\* authenticated answers with the same redirect and leaves the session as
\* it found it.
C8_LogoutClears ==
    [][/\ req'.op = "logout" =>
              /\ ~IsAuthenticated'
              /\ session'.username = NoUser
              /\ resp'.status = 302
       /\ (RequestStep /\ req'.op = "logout" /\ ~IsAuthenticated) =>
              session' = open_session(session, age)
       /\ (~IsAuthenticated /\ IsAuthenticated') =>
              (AuthStep /\ resp'.ret = "True")]_vars

C8_Witness ==
    /\ req.op = "logout"
    /\ session = [username |-> NoUser, permanent |-> TRUE]
    /\ ~IsAuthenticated

\* C9 as stated: once the lifetime has passed since the session was
\* established, without a new successful verification, is_authenticated
\* reports false.
C9_ExpiresAfterEstablishment ==
    (session.username # NoUser /\ sinceLogin > PERMANENT_SESSION_LIFETIME) =>
        ~IsAuthenticated

\* C9 amended: a session established by a successful verification is marked
\* permanent, its cookie is never older than its establishment, and once the
\* lifetime has passed since the cookie was last signed (the client's last
\* request) is_authenticated reports false.
C9_ExpiresAfterInactivity ==
    /\ session.username # NoUser =>
           (session.permanent /\ age <= sinceLogin)
    /\ age > PERMANENT_SESSION_LIFETIME => ~IsAuthenticated

C9_Witness ==
    /\ session.username # NoUser
    /\ session.permanent
    /\ age > PERMANENT_SESSION_LIFETIME
    /\ ~IsAuthenticated

\* C10: a call of authenticate that returns False leaves the session as the
\* request found it, subject and permanent flag included, and no step ever
\* changes the record store.
C10_FailureLeavesSession ==
    [][/\ (AuthStep /\ resp'.ret = "False") =>
              session' = open_session(session, age)
       /\ store' = store]_vars

C10_Witness ==
    /\ Verified
    /\ resp.ret = "False"
    /\ session.username = "alice"
    /\ session.permanent
    /\ req.username = Str("alice")

=============================================================================
